---- MODULE Spec2Model ----
(***************************************************************************)
(* A model of the slackcli command actions: `files download-all`,          *)
(* `conversations unread`, `conversations read` and `messages schedule`.   *)
(* Each command is a sequential program; every remote call and every file  *)
(* system call is one step whose outcome (a result or a thrown error) is   *)
(* chosen by the environment.  Strings are sequences of one-character      *)
(* strings, so that file-name surgery and the string comparison of         *)
(* timestamps are computed as the code computes them.                      *)
(***************************************************************************)
EXTENDS Integers, Sequences, FiniteSets, TLC

(***************************************************************************)
(* Bounds of the model.                                                    *)
(***************************************************************************)
\* longest file listing returned by listFiles
MaxFiles == 3

\* how many seconds around each validation boundary the --time values span
TimeSpread == 2

\* most drafts one listDrafts call returns
MaxDrafts == 3

\* most lines of a VTT payload, the payload of the example apart
MaxVttLines == 3

\* most messages one getConversationHistory call returns
MaxMsgs == 2

\* largest unread_count in the fetched counters
MaxUnread == 2

(***************************************************************************)
(* Strings.                                                                *)
(***************************************************************************)
\* the empty string, which JavaScript treats as falsy (like undefined)
Empty == <<>>

\* a || b on strings
OrElse(a, b) == IF a # Empty THEN a ELSE b

\* s.includes(c) for a one-character c
Includes(s, c) == \E i \in 1..Len(s) : s[i] = c

\* s.lastIndexOf(c), as a 1-based position, 0 when c does not occur
LastIndexOf(s, c) ==
    IF Includes(s, c)
    THEN CHOOSE i \in 1..Len(s) : s[i] = c /\ \A j \in (i+1)..Len(s) : s[j] # c
    ELSE 0

\* s.slice(0, s.lastIndexOf(c))
SliceBeforeLast(s, c) == SubSeq(s, 1, LastIndexOf(s, c) - 1)

\* s.split(c).pop(): what follows the last c
SplitPop(s, c) == SubSeq(s, LastIndexOf(s, c) + 1, Len(s))

\* the decimal digits of a natural number, as `${n}` renders it
DigitChar(d) ==
    CASE d = 0 -> "0" [] d = 1 -> "1" [] d = 2 -> "2" [] d = 3 -> "3"
      [] d = 4 -> "4" [] d = 5 -> "5" [] d = 6 -> "6" [] d = 7 -> "7"
      [] d = 8 -> "8" [] d = 9 -> "9"

RECURSIVE NumToString(_)
NumToString(n) ==
    IF n < 10 THEN <<DigitChar(n)>>
    ELSE NumToString(n \div 10) \o <<DigitChar(n % 10)>>

\* path.join(dir, name) for a plain file name
Join(d, name) == d \o <<"/">> \o name

(***************************************************************************)
(* files download-all: the inputs.                                         *)
(***************************************************************************)
\* options.output
outputDir == <<"d">>

NoFile == [id |-> Empty, name |-> Empty, filetype |-> Empty,
           url_private_download |-> Empty, url_private |-> Empty,
           mode |-> "hosted"]

\* the SlackFile records a listing is drawn from
FileKinds ==
    { [NoFile EXCEPT !.id = <<"F">>, !.name = <<"a", ".", "t">>,
                     !.url_private_download = <<"u">>],
      [NoFile EXCEPT !.id = <<"a">>, !.filetype = <<"t">>,
                     !.url_private = <<"v">>],
      [NoFile EXCEPT !.id = <<"G">>, !.name = <<"a", "_", "1", ".", "t">>,
                     !.url_private = <<"v">>],
      [NoFile EXCEPT !.id = <<"c">>, !.url_private_download = <<"u">>],
      [NoFile EXCEPT !.id = <<"H">>, !.name = <<"x", ".", "y", ".", "t">>,
                     !.url_private_download = <<"u">>],
      [NoFile EXCEPT !.id = <<"T">>, !.name = <<"a", ".", "t">>,
                     !.url_private_download = <<"u">>, !.mode = "tombstone"],
      [NoFile EXCEPT !.id = <<"N">>, !.name = <<"a", ".", "t">>],
      [NoFile EXCEPT !.id = <<"M">>, !.name = <<"a", ".", "t">>,
                     !.mode = "tombstone"] }

\* what client.listFiles may return in response.files
Listings == UNION { [1..n -> FileKinds] : n \in 0..MaxFiles }

\* what the output directory may hold from a prior run
PriorDirs ==
    { {},
      { Join(outputDir, <<"a", ".", "t">>) },
      { Join(outputDir, <<"a", "_", "1", ".", "t">>) },
      { Join(outputDir, <<"c", ".", "b", "i", "n">>),
        Join(outputDir, <<"c", "_", "1", ".", "b", "i", "n">>) } }

(***************************************************************************)
(* Timestamps: strings of digits, compared as JavaScript compares strings. *)
(***************************************************************************)
\* the code unit of a digit character
CharCode(c) ==
    CASE c = "0" -> 48 [] c = "1" -> 49 [] c = "2" -> 50 [] c = "3" -> 51
      [] c = "4" -> 52 [] c = "5" -> 53 [] c = "6" -> 54 [] c = "7" -> 55
      [] c = "8" -> 56 [] c = "9" -> 57

Min(a, b) == IF a < b THEN a ELSE b

\* a > b on strings: the first differing code unit decides, and a proper
\* prefix is the smaller string
StrGT(a, b) ==
    LET n == Min(Len(a), Len(b))
        differ == { i \in 1..n : a[i] # b[i] }
    IN  IF differ = {}
        THEN Len(a) > Len(b)
        ELSE LET i == CHOOSE k \in differ : \A l \in differ : k <= l
             IN  CharCode(a[i]) > CharCode(b[i])

(***************************************************************************)
(* parseVttToText.                                                         *)
(***************************************************************************)
\* s.startsWith(p)
StartsWith(s, p) == Len(s) >= Len(p) /\ SubSeq(s, 1, Len(p)) = p

\* s.includes(p) for a string p
IncludesStr(s, p) ==
    \E i \in 1..(Len(s) - Len(p) + 1) : SubSeq(s, i, i + Len(p) - 1) = p

\* the characters String.prototype.trim removes
WhiteSpace == {" ", "\t", "\r", "\n"}

\* s.trim()
Trim(s) ==
    LET solid == { i \in 1..Len(s) : s[i] \notin WhiteSpace }
    IN  IF solid = {} THEN Empty
        ELSE SubSeq(s, CHOOSE i \in solid : \A j \in solid : i <= j,
                       CHOOSE i \in solid : \A j \in solid : i >= j)

\* s.split(sep) for a one-character sep
RECURSIVE Split(_, _)
Split(s, sep) ==
    IF ~Includes(s, sep) THEN <<s>>
    ELSE LET i == CHOOSE k \in 1..Len(s) :
                      s[k] = sep /\ \A j \in 1..(k - 1) : s[j] # sep
         IN  <<SubSeq(s, 1, i - 1)>> \o Split(SubSeq(s, i + 1, Len(s)), sep)

DigitChars == {"0", "1", "2", "3", "4", "5", "6", "7", "8", "9"}

\* /^\d+$/.test(s)
AllDigits(s) == Len(s) > 0 /\ \A i \in 1..Len(s) : s[i] \in DigitChars

\* a replacement that leaves the markup in
KeepTags(s) == s

\* s.replace(/<[^>]+>/g, ''): scanning from the left, a '<' whose next '>'
\* lies at least two places on is removed together with all up to that '>'
RECURSIVE StripTags(_)
StripTags(s) ==
    IF s = <<>> THEN <<>>
    ELSE LET closers == { j \in 2..Len(s) : s[j] = ">" }
             close == IF closers = {} THEN 0
                      ELSE CHOOSE j \in closers : \A k \in closers : j <= k
         IN  IF s[1] = "<" /\ close >= 3
             THEN StripTags(SubSeq(s, close + 1, Len(s)))
             ELSE <<s[1]>> \o StripTags(Tail(s))

\* parts.join(sep)
RECURSIVE JoinWith(_, _)
JoinWith(parts, sep) ==
    IF parts = <<>> THEN Empty
    ELSE IF Len(parts) = 1 THEN parts[1]
    ELSE parts[1] \o sep \o JoinWith(Tail(parts), sep)

\* the first filter of parseVttToText
KeepVttLine(line) ==
    LET trimmed == Trim(line)
    IN  /\ trimmed # Empty
        /\ ~StartsWith(trimmed, <<"W", "E", "B", "V", "T", "T">>)
        /\ ~IncludesStr(trimmed, <<"-", "-", ">">>)
        /\ ~AllDigits(trimmed)

\* .map(line => line.replace(/<[^>]+>/g, '').trim())
MapSeq(seq, Op(_)) == [i \in 1..Len(seq) |-> Op(seq[i])]

CleanVttLine(line) == Trim(StripTags(line))

parseVttToText(vttContent) ==
    JoinWith(
        SelectSeq(MapSeq(SelectSeq(Split(vttContent, "\n"), KeepVttLine),
                         CleanVttLine),
                  LAMBDA line : line # Empty),
        <<" ">>)

(***************************************************************************)
(* conversations unread: the inputs.                                       *)
(***************************************************************************)
\* the conversations the fetched counters may list, in this order
ChannelIds == <<"A", "B">>

\* a SlackUnreadChannel
UnreadChannelRecords(id) ==
    [id : {id}, unread_count : 0..MaxUnread, is_muted : BOOLEAN]

\* what client.getUserCounts may return in countsResponse.channels
CountsResponses ==
    UNION { { c \in [1..n -> UNION { UnreadChannelRecords(ChannelIds[i]) :
                                       i \in 1..Len(ChannelIds) }] :
                \A i \in 1..n : c[i].id = ChannelIds[i] } :
            n \in 0..Len(ChannelIds) }

\* values of --channel: not given, a listed conversation, an unknown one
ChannelOptions == {"", "A", "Z"}

\* message timestamps, all of one width as the service issues them; the
\* watermark is one of them, or absent
T09 == <<"0", "9">>
T10 == <<"1", "0">>
T11 == <<"1", "1">>

\* infoResponse.channel?.last_read
LastReads == {Empty, T10}

\* the messages a history call may return: older than, equal to and newer
\* than the watermark
MessagePool ==
    { [ts |-> T09, user |-> "U1"],
      [ts |-> T10, user |-> ""],
      [ts |-> T11, user |-> "U1"] }

\* historyResponse.messages: up to MaxMsgs messages with distinct ts
Histories ==
    UNION { { h \in [1..n -> MessagePool] :
                \A i, j \in 1..n : i # j => h[i].ts # h[j].ts } :
            n \in 0..MaxMsgs }

(***************************************************************************)
(* conversations read: the inputs.                                         *)
(***************************************************************************)
\* VTT payloads fetchFileContent may return: one with a cue, one with none
VttWithCue ==
    <<"W", "E", "B", "V", "T", "T", "\n", "\n", "1", "\n",
      "0", "0", ":", "0", "0", " ", "-", "-", ">", " ", "0", "0", ":", "0",
      "2", "\n", "H", "i", " ", "<", "b", ">", "y", "o", "<", "/", "b", ">",
      "\n">>

VttHeaderOnly == <<"W", "E", "B", "V", "T", "T", "\n">>

VttPayloads == {VttWithCue, VttHeaderOnly}

\* files of a message: a transcribed video, a video still processing
VideoDone(id) ==
    [id |-> id, transcription |-> "complete", vtt |-> <<"v", id>>]

VideoPending(id) ==
    [id |-> id, transcription |-> "processing", vtt |-> <<"v", id>>]

\* a transcribed video without a vtt reference
VideoWithoutVtt(id) ==
    [id |-> id, transcription |-> "complete", vtt |-> Empty]

T12 == <<"1", "2">>

\* the messages a history or replies call may return to `conversations read`
ReadPool ==
    { [ts |-> T09, thread_ts |-> T09, user |-> "U1", reply_count |-> 2,
       files |-> <<>>],
      [ts |-> T10, thread_ts |-> Empty, user |-> "", reply_count |-> 0,
       files |-> <<VideoDone("1")>>],
      [ts |-> T11, thread_ts |-> T09, user |-> "U2", reply_count |-> 0,
       files |-> <<VideoDone("2"), VideoPending("3"), VideoDone("4")>>],
      [ts |-> T12, thread_ts |-> T12, user |-> "U1", reply_count |-> 1,
       files |-> <<VideoDone("5"), VideoWithoutVtt("7"), VideoDone("6")>>] }

\* response.messages: up to MaxMsgs messages with distinct ts
ReadResponses ==
    UNION { { h \in [1..n -> ReadPool] :
                \A i, j \in 1..n : i # j => h[i].ts # h[j].ts } :
            n \in 0..MaxMsgs }

\* what getConversationReplies may return for a thread root: the root and
\* its replies, oldest first
ReplyOf(ts, user) == [ts |-> ts, user |-> user]

ThreadResponses(rootTs) ==
    { <<>>,
      <<ReplyOf(rootTs, "U1")>>,
      <<ReplyOf(rootTs, "U1"), ReplyOf(<<"2", "0">>, "U3"),
        ReplyOf(<<"2", "1">>, "U3")>>,
      <<ReplyOf(rootTs, "U1"), ReplyOf(<<"2", "0">>, "U1"),
        ReplyOf(<<"2", "1">>, "")>>,
      <<ReplyOf(rootTs, "U1"), ReplyOf(<<"2", "0">>, "U3"),
        ReplyOf(<<"2", "1">>, "U4")>> }

\* the option sets `conversations read` is run with
NoReadOptions ==
    [threadTs |-> Empty, excludeReplies |-> FALSE, oldestFirst |-> FALSE,
     includeTranscripts |-> TRUE, includeThreads |-> FALSE]

ReadOptionSets ==
    { NoReadOptions,
      [NoReadOptions EXCEPT !.includeThreads = TRUE],
      [NoReadOptions EXCEPT !.includeThreads = TRUE,
                            !.includeTranscripts = FALSE,
                            !.oldestFirst = TRUE],
      [NoReadOptions EXCEPT !.excludeReplies = TRUE,
                            !.includeTranscripts = FALSE],
      [NoReadOptions EXCEPT !.threadTs = T09, !.includeThreads = TRUE,
                            !.includeTranscripts = FALSE] }

(***************************************************************************)
(* messages schedule: the inputs.                                          *)
(***************************************************************************)
\* the unix second around which Date.now() falls
Now0 == 1000

\* 120 * 24 * 60 * 60
MaxAheadSeconds == 120 * 24 * 60 * 60

\* the post times tried: around now, around now + 120 days, in an hour
PostTimes ==
    { Now0 + d : d \in (0 - TimeSpread)..TimeSpread } \cup
    { Now0 + MaxAheadSeconds + d : d \in (0 - TimeSpread)..TimeSpread } \cup
    { Now0 + 3600 }

\* a time in milliseconds, held as whole seconds and the milliseconds left
\* over: the product 1000 * seconds is beyond the integers of the checker
Millis(s, ms) == [seconds |-> s, millis |-> ms]

\* values of --time: a unix timestamp in digits, a date string (with the
\* milliseconds Date gives for it), a string Date cannot parse
NoTime == [text |-> Empty, dateValid |-> FALSE, dateMs |-> Millis(0, 0)]

TimeOptions ==
    { [NoTime EXCEPT !.text = NumToString(t)] : t \in PostTimes } \cup
    { [NoTime EXCEPT !.text = <<"2", "0", "2", "5", "-", "0", "1">>,
                     !.dateValid = TRUE, !.dateMs = Millis(t, ms)] :
        t \in {Now0, Now0 + 1, Now0 + MaxAheadSeconds,
               Now0 + MaxAheadSeconds + 1},
        ms \in {0, 999} } \cup
    { [NoTime EXCEPT !.text = <<"s", "o", "o", "n">>] }

\* values of --recipient-id: a user, a channel
RecipientOptions == { <<"U", "7">>, <<"C", "7">> }

\* Date.now() when the action validates, in milliseconds
ClockReadings ==
    { Millis(Now0, 0), Millis(Now0, 999), Millis(Now0 + 1, 0) }

(***************************************************************************)
(* parseVttToText: the inputs.                                             *)
(***************************************************************************)
\* lines of a VTT payload, each with what it is and the text it carries:
\* the header, a blank line, sequence numbers, a cue timing, cue texts
VttLinePool ==
    { [raw |-> <<"W", "E", "B", "V", "T", "T">>,
       kind |-> "header", clean |-> Empty],
      [raw |-> <<>>,
       kind |-> "blank", clean |-> Empty],
      [raw |-> <<"1">>,
       kind |-> "number", clean |-> Empty],
      [raw |-> <<" ", "7", " ">>,
       kind |-> "number", clean |-> Empty],
      [raw |-> <<"0", " ", "-", "-", ">", " ", "1">>,
       kind |-> "timing", clean |-> Empty],
      [raw |-> <<"H", "e", "l", "l", "o", " ", "<", "b", ">", "w", "o",
                 "r", "l", "d", "<", "/", "b", ">">>,
       kind |-> "text", clean |-> <<"H", "e", "l", "l", "o", " ", "w", "o", "r", "l", "d">>],
      [raw |-> <<"<", "v", " ", "B", ">">>,
       kind |-> "text", clean |-> Empty],
      [raw |-> <<"<", "i", ">", "2", "<", "/", "i", ">">>,
       kind |-> "text", clean |-> <<"2">>],
      [raw |-> <<"a", " ", "b", "\r">>,
       kind |-> "text", clean |-> <<"a", " ", "b">>] }

\* WEBVTT\n\n1\n00:00:00.000 --> 00:00:02.000\nHello <b>world</b>\n
VttExampleLines ==
    << [raw |-> <<"W", "E", "B", "V", "T", "T">>,
       kind |-> "header", clean |-> Empty],
       [raw |-> <<>>,
       kind |-> "blank", clean |-> Empty],
       [raw |-> <<"1">>,
       kind |-> "number", clean |-> Empty],
       [raw |-> <<"0", "0", ":", "0", "0", ":", "0", "0", ".", "0", "0",
                 "0", " ", "-", "-", ">", " ", "0", "0", ":", "0", "0",
                 ":", "0", "2", ".", "0", "0", "0">>,
       kind |-> "timing", clean |-> Empty],
       [raw |-> <<"H", "e", "l", "l", "o", " ", "<", "b", ">", "w", "o",
                 "r", "l", "d", "<", "/", "b", ">">>,
       kind |-> "text", clean |-> <<"H", "e", "l", "l", "o", " ", "w", "o", "r", "l", "d">>],
       [raw |-> <<>>,
       kind |-> "blank", clean |-> Empty] >>

VttLineLists ==
    UNION { [1..n -> VttLinePool] : n \in 0..MaxVttLines }
    \cup {VttExampleLines}

(***************************************************************************)
(* drafts: the inputs.                                                     *)
(***************************************************************************)
\* drafts: active, sent, deleted, and one without a destination
DraftKinds ==
    { [id |-> "Dr1", channel_id |-> "A", is_deleted |-> FALSE,
       is_sent |-> FALSE],
      [id |-> "Dr2", channel_id |-> "B", is_deleted |-> FALSE,
       is_sent |-> TRUE],
      [id |-> "Dr3", channel_id |-> "A", is_deleted |-> TRUE,
       is_sent |-> TRUE],
      [id |-> "Dr4", channel_id |-> "", is_deleted |-> FALSE,
       is_sent |-> FALSE] }

\* response.drafts of listDrafts
DraftResponses == UNION { [1..n -> DraftKinds] : n \in 0..MaxDrafts }

DraftCommands == {"list", "create", "delete"}

(***************************************************************************)
(* State.                                                                  *)
(***************************************************************************)
VARIABLES
    pc,               \* where the running command action stands
    exitCode,         \* -1 while running, then the process's exit code
    \* files download-all
    dirExists,        \* existsSync(outputDir)
    dirFiles,         \* the paths that exist in outputDir
    priorFiles,       \* what outputDir held when the command started
    fileList,         \* response.files
    fileIdx,          \* position of the for loop in fileList
    downloadedCount,
    failedCount,
    skippedCount,
    fetched,          \* the fetchFileBinary calls made: <<file index, url>>
    written,          \* the writeFileSync calls made, as records
    dlLog,            \* the outcome of each file processed so far
    reported,         \* the counts the summary printed
    \* conversations unread
    options,          \* channel, show, markRead, includeMuted
    allChannels,      \* countsResponse.channels
    unreadChannels,   \* the filtered, sorted conversations
    chIdx,            \* position of the for loop in unreadChannels
    lastRead,         \* the watermark of the conversation being processed
    messages,         \* its re-filtered history
    userIds,          \* its user ids still to look up
    users,            \* the working user map: id -> profile
    totalMessagesShown,
    latestTimestamps, \* insertion-ordered map: <<channel id, latestTs>>
    markIdx,          \* position of the mark-read loop
    fetchedHistory,   \* per conversation: watermark and messages returned
    shown,            \* per conversation: the messages printed
    userLookups,      \* the getUserInfo calls made
    markCalls,        \* the markConversation calls made
    reportedMarked,   \* the count in "Marked N conversation(s) as read"
    outcome,          \* what the command reported
    \* conversations read
    rdOptions,        \* threadTs, excludeReplies, oldestFirst, include...
    rdMessages,       \* messages, enriched in place
    rdUsers,          \* the working user map: id -> profile
    rdQueue,          \* indices of the messages the running loop has left
    rdCalls,          \* the remote calls made, in order
    rdPrinted,        \* the messages handed to the output
    \* messages schedule
    scOptions,        \* recipientId, time
    now,              \* Math.floor(Date.now() / 1000), -1 before it is read
    postAt,           \* the parsed post time, -1 before it is parsed
    channelId,        \* the conversation the message goes to
    scCalls,          \* the remote calls made, in order
    scError,          \* the message of the error thrown, if any
    \* drafts
    drCommand,        \* list, create or delete
    drAll,            \* options.all
    drCalls,          \* the remote calls made, in order
    drShown,          \* the drafts printed, with the status printed
    drReport,         \* what the command reported: success or error
    \* parseVttToText
    vttLines,         \* the lines the payload is made of
    vttContent,       \* the payload
    vttText           \* the text returned

dlVars == <<dirExists, dirFiles, priorFiles, fileList, fileIdx,
            downloadedCount, failedCount, skippedCount, fetched, written,
            dlLog, reported>>

unVars == <<options, allChannels, unreadChannels, chIdx, lastRead, messages,
            userIds, users, totalMessagesShown, latestTimestamps, markIdx,
            fetchedHistory, shown, userLookups, markCalls, reportedMarked,
            outcome>>

rdVars == <<rdOptions, rdMessages, rdUsers, rdQueue, rdCalls, rdPrinted>>

scVars == <<scOptions, now, postAt, channelId, scCalls, scError>>

drVars == <<drCommand, drAll, drCalls, drShown, drReport>>

vttVars == <<vttLines, vttContent, vttText>>

vars == <<pc, exitCode, dlVars, unVars, rdVars, scVars, drVars, vttVars>>

\* a step of one command leaves the state of the other commands alone
DlOnly == UNCHANGED <<unVars, rdVars, scVars, drVars, vttVars>>

UnOnly == UNCHANGED <<dlVars, rdVars, scVars, drVars, vttVars>>

RdOnly == UNCHANGED <<dlVars, unVars, scVars, drVars, vttVars>>

ScOnly == UNCHANGED <<dlVars, unVars, rdVars, drVars, vttVars>>

DrOnly == UNCHANGED <<dlVars, unVars, rdVars, scVars, vttVars>>

VttOnly == UNCHANGED <<dlVars, unVars, rdVars, scVars, drVars>>

NoReport == [downloaded |-> -1, failed |-> -1, skipped |-> -1]

DlIdle ==
    /\ dirExists = FALSE
    /\ dirFiles = {}
    /\ priorFiles = {}
    /\ fileList = <<>>
    /\ fileIdx = 1
    /\ downloadedCount = 0
    /\ failedCount = 0
    /\ skippedCount = 0
    /\ fetched = <<>>
    /\ written = <<>>
    /\ dlLog = <<>>
    /\ reported = NoReport

\* nothing fetched yet for a conversation
NoHistory == [fetched |-> FALSE, last_read |-> Empty, returned |-> <<>>]

ChannelIdSet == { ChannelIds[i] : i \in 1..Len(ChannelIds) }

NoOptions == [channel |-> "", show |-> FALSE, markRead |-> FALSE,
              includeMuted |-> FALSE]

VttIdle ==
    /\ vttLines = <<>>
    /\ vttContent = Empty
    /\ vttText = Empty

DrIdle ==
    /\ drCommand = ""
    /\ drAll = FALSE
    /\ drCalls = <<>>
    /\ drShown = <<>>
    /\ drReport = ""

ScIdle ==
    /\ scOptions = [recipientId |-> Empty, time |-> NoTime]
    /\ now = -1
    /\ postAt = -1
    /\ channelId = Empty
    /\ scCalls = <<>>
    /\ scError = ""

RdIdle ==
    /\ rdOptions = NoReadOptions
    /\ rdMessages = <<>>
    /\ rdUsers = <<>>
    /\ rdQueue = <<>>
    /\ rdCalls = <<>>
    /\ rdPrinted = <<>>

UnIdle ==
    /\ options = NoOptions
    /\ allChannels = <<>>
    /\ unreadChannels = <<>>
    /\ chIdx = 1
    /\ lastRead = Empty
    /\ messages = <<>>
    /\ userIds = <<>>
    /\ users = <<>>
    /\ totalMessagesShown = 0
    /\ latestTimestamps = <<>>
    /\ markIdx = 1
    /\ fetchedHistory = [c \in ChannelIdSet |-> NoHistory]
    /\ shown = [c \in ChannelIdSet |-> <<>>]
    /\ userLookups = <<>>
    /\ markCalls = <<>>
    /\ reportedMarked = -1
    /\ outcome = "none"

\* process.exit(1) in a command's outer catch
Fail == pc' = "done" /\ exitCode' = 1

\* the action returns and the process ends normally
Return == pc' = "done" /\ exitCode' = 0

(***************************************************************************)
(* files download-all.                                                     *)
(***************************************************************************)
\* file.url_private_download || file.url_private
DownloadUrl(file) == OrElse(file.url_private_download, file.url_private)

\* file.name || `${file.id}.${file.filetype || 'bin'}`
FileName(file) ==
    OrElse(file.name,
           file.id \o <<".">> \o OrElse(file.filetype, <<"b", "i", "n">>))

\* the check that skips a deleted file
TombstoneUnchecked(file) == FALSE

IsTombstone(file) == file.mode = "tombstone"

\* the candidate the while loop builds for a given counter
CandidateAfterExt(fileName, counter) ==
    Join(outputDir, fileName \o <<"_">> \o NumToString(counter))

Candidate(fileName, counter) ==
    LET ext == IF Includes(fileName, ".")
               THEN <<".">> \o SplitPop(fileName, ".") ELSE Empty
        nameWithoutExt == IF Includes(fileName, ".")
                          THEN SliceBeforeLast(fileName, ".") ELSE fileName
    IN  Join(outputDir, nameWithoutExt \o <<"_">> \o NumToString(counter) \o ext)

\* counter++ at the end of the while body
NextCounter(counter) == counter + 1

\* a probe that takes the first suffixed name without looking it up
ProbeOnce(files, fileName, finalPath, counter) ==
    IF finalPath \in files THEN Candidate(fileName, counter) ELSE finalPath

\* while (existsSync(finalPath)) { ... }, existence looked up in `files`
RECURSIVE ProbePath(_, _, _, _)
ProbePath(files, fileName, finalPath, counter) ==
    IF finalPath \in files
    THEN ProbePath(files, fileName, Candidate(fileName, counter),
                   NextCounter(counter))
    ELSE finalPath

FinalPath(files, fileName) ==
    ProbePath(files, fileName, Join(outputDir, fileName), 1)

\* getAuthenticatedClient(options.workspace)
DlGetClient ==
    /\ pc = "dl_client"
    /\ \/ pc' = "dl_mkdir" /\ UNCHANGED exitCode
       \/ Fail
    /\ UNCHANGED dlVars
    /\ DlOnly

\* if (!existsSync(outputDir)) mkdirSync(outputDir, { recursive: true })
DlMkdir ==
    /\ pc = "dl_mkdir"
    /\ \/ /\ dirExists
          /\ pc' = "dl_list"
          /\ UNCHANGED <<exitCode, dirExists>>
       \/ /\ ~dirExists
          /\ dirExists' = TRUE
          /\ pc' = "dl_list"
          /\ UNCHANGED exitCode
       \/ /\ ~dirExists
          /\ Fail
          /\ UNCHANGED dirExists
    /\ UNCHANGED <<dirFiles, priorFiles, fileList, fileIdx, downloadedCount,
                   failedCount, skippedCount, fetched, written, dlLog,
                   reported>>
    /\ DlOnly

\* client.listFiles(...), and the early return on an empty listing
DlListFiles ==
    /\ pc = "dl_list"
    /\ \/ \E l \in Listings :
            /\ fileList' = l
            /\ IF Len(l) = 0
               THEN Return
               ELSE pc' = "dl_loop" /\ UNCHANGED exitCode
       \/ Fail /\ UNCHANGED fileList
    /\ UNCHANGED <<dirExists, dirFiles, priorFiles, fileIdx, downloadedCount,
                   failedCount, skippedCount, fetched, written, dlLog,
                   reported>>
    /\ DlOnly

\* the skip checks at the head of the loop body
DlSkips(file) == DownloadUrl(file) = Empty \/ IsTombstone(file)

\* failedCount++ in the per-file catch
MissedFailure(n) == n

CountFailure(n) == n + 1

\* the per-file catch: the failure is swallowed and the loop goes on
DlCatchAborts == Fail

DlCatch == UNCHANGED <<pc, exitCode>>

\* one iteration of for (const file of fileList)
DlProcessFile ==
    /\ pc = "dl_loop"
    /\ fileIdx <= Len(fileList)
    /\ LET file == fileList[fileIdx]
           finalPath == FinalPath(dirFiles, FileName(file))
           write == [file |-> fileIdx, path |-> finalPath,
                     existed |-> finalPath \in dirFiles,
                     collided |-> Join(outputDir, FileName(file)) \in dirFiles,
                     ok |-> TRUE, left |-> TRUE]
       IN  \/ /\ DlSkips(file)
              /\ skippedCount' = skippedCount + 1
              /\ dlLog' = Append(dlLog, "skipped")
              /\ UNCHANGED <<pc, exitCode, dirFiles, downloadedCount,
                             failedCount, fetched, written>>
           \/ /\ ~DlSkips(file)
              \* fetchFileBinary and writeFileSync succeed
              /\ fetched' = Append(fetched, <<fileIdx, DownloadUrl(file)>>)
              /\ written' = Append(written, write)
              /\ dirFiles' = dirFiles \cup {finalPath}
              /\ downloadedCount' = downloadedCount + 1
              /\ dlLog' = Append(dlLog, "downloaded")
              /\ UNCHANGED <<pc, exitCode, failedCount, skippedCount>>
           \/ /\ ~DlSkips(file)
              \* fetchFileBinary throws
              /\ fetched' = Append(fetched, <<fileIdx, DownloadUrl(file)>>)
              /\ failedCount' = CountFailure(failedCount)
              /\ dlLog' = Append(dlLog, "failed")
              /\ DlCatch
              /\ UNCHANGED <<dirFiles, downloadedCount, skippedCount, written>>
           \/ /\ ~DlSkips(file)
              \* writeFileSync throws, with or without leaving a partial file
              /\ fetched' = Append(fetched, <<fileIdx, DownloadUrl(file)>>)
              /\ \E partial \in BOOLEAN :
                    /\ written' = Append(written,
                                         [write EXCEPT !.ok = FALSE,
                                                       !.left = partial])
                    /\ dirFiles' = IF partial THEN dirFiles \cup {finalPath}
                                   ELSE dirFiles
              /\ failedCount' = CountFailure(failedCount)
              /\ dlLog' = Append(dlLog, "failed")
              /\ DlCatch
              /\ UNCHANGED <<downloadedCount, skippedCount>>
    /\ fileIdx' = fileIdx + 1
    /\ UNCHANGED <<dirExists, priorFiles, fileList, reported>>
    /\ DlOnly

\* the summary after the loop
DlSummary ==
    /\ pc = "dl_loop"
    /\ fileIdx > Len(fileList)
    /\ reported' = [downloaded |-> downloadedCount, failed |-> failedCount,
                    skipped |-> skippedCount]
    /\ Return
    /\ UNCHANGED <<dirExists, dirFiles, priorFiles, fileList, fileIdx,
                   downloadedCount, failedCount, skippedCount, fetched,
                   written, dlLog>>
    /\ DlOnly

InitDownload ==
    /\ pc = "dl_client"
    /\ exitCode = -1
    /\ dirExists \in BOOLEAN
    /\ dirFiles \in IF dirExists THEN PriorDirs ELSE {{}}
    /\ priorFiles = dirFiles
    /\ fileList = <<>>
    /\ fileIdx = 1
    /\ downloadedCount = 0
    /\ failedCount = 0
    /\ skippedCount = 0
    /\ fetched = <<>>
    /\ written = <<>>
    /\ dlLog = <<>>
    /\ reported = NoReport
    /\ UnIdle
    /\ RdIdle
    /\ ScIdle
    /\ DrIdle
    /\ VttIdle

NextDownload == DlGetClient \/ DlMkdir \/ DlListFiles \/ DlProcessFile \/ DlSummary

SpecDownload == InitDownload /\ [][NextDownload]_vars

(***************************************************************************)
(* conversations unread.                                                   *)
(***************************************************************************)
\* a filter that lets conversations without unread messages through
AnyUnreadCount(ch) == ch.unread_count >= 0

\* ch.unread_count > 0
HasUnread(ch) == ch.unread_count > 0

\* the three filters applied to allChannels
FilterChannels(all, opts) ==
    LET withUnread == SelectSeq(all, HasUnread)
        unmuted == IF ~opts.includeMuted
                   THEN SelectSeq(withUnread, LAMBDA ch : ~ch.is_muted)
                   ELSE withUnread
    IN  IF opts.channel # ""
        THEN SelectSeq(unmuted, LAMBDA ch : ch.id = opts.channel)
        ELSE unmuted

\* a check that takes a conversation without unread messages for a missing one
ChannelExistsWithUnread(all, id) ==
    \E i \in 1..Len(all) : all[i].id = id /\ all[i].unread_count > 0

\* allChannels.some(ch => ch.id === options.channel)
ChannelExists(all, id) == \E i \in 1..Len(all) : all[i].id = id

\* an insertion that puts an element before those that count the same
InsertBeforeTies(sorted, ch) ==
    LET k == Cardinality({ i \in 1..Len(sorted) :
                             sorted[i].unread_count > ch.unread_count })
    IN  SubSeq(sorted, 1, k) \o <<ch>> \o SubSeq(sorted, k + 1, Len(sorted))

\* unreadChannels.sort((a, b) => b.unread_count - a.unread_count): a stable
\* sort, so each element goes behind those that do not count less
InsertByUnread(sorted, ch) ==
    LET k == Cardinality({ i \in 1..Len(sorted) :
                             sorted[i].unread_count >= ch.unread_count })
    IN  SubSeq(sorted, 1, k) \o <<ch>> \o SubSeq(sorted, k + 1, Len(sorted))

RECURSIVE SortByUnread(_)
SortByUnread(chs) ==
    IF chs = <<>> THEN <<>>
    ELSE InsertByUnread(SortByUnread(SubSeq(chs, 1, Len(chs) - 1)),
                        chs[Len(chs)])

\* infoResponse.channel?.last_read || '0'
LastReadOrZero(last_read) == OrElse(last_read, <<"0">>)

\* msg.ts > lastRead
IsUnreadInclusive(ts, last) == ts = last \/ StrGT(ts, last)

IsUnread(ts, last) == StrGT(ts, last)

\* messages.reduce((max, msg) => msg.ts > max ? msg.ts : max, '0')
RECURSIVE ReduceMax(_, _)
ReduceMax(msgs, max) ==
    IF msgs = <<>> THEN max
    ELSE ReduceMax(Tail(msgs),
                   IF StrGT(Head(msgs).ts, max) THEN Head(msgs).ts ELSE max)

LatestTsOfNewestFirst(msgs) == msgs[1].ts

LatestTs(msgs) == ReduceMax(msgs, <<"0">>)

\* Map.prototype.set on an insertion-ordered map kept as a sequence of pairs
MapSet(map, key, value) ==
    IF \E i \in 1..Len(map) : map[i][1] = key
    THEN [i \in 1..Len(map) |->
             IF map[i][1] = key THEN <<key, value>> ELSE map[i]]
    ELSE Append(map, <<key, value>>)

\* [...new Set(messages.map(m => m.user).filter(Boolean))]
RECURSIVE DistinctUsers(_, _)
DistinctUsers(msgs, seen) ==
    IF msgs = <<>> THEN <<>>
    ELSE LET u == Head(msgs).user
         IN  IF u = "" \/ u \in seen
             THEN DistinctUsers(Tail(msgs), seen)
             ELSE <<u>> \o DistinctUsers(Tail(msgs), seen \cup {u})

\* messages.forEach(msg => { if (msg.user) users.set(msg.user, { id }) })
RECURSIVE SetPlaceholders(_, _)
SetPlaceholders(map, msgs) ==
    IF msgs = <<>> THEN map
    ELSE LET u == Head(msgs).user
         IN  SetPlaceholders(
                 IF u = "" THEN map
                 ELSE [x \in DOMAIN map \cup {u} |->
                          IF x = u THEN [id |-> u, real_name |-> ""]
                          ELSE map[x]],
                 Tail(msgs))

\* messages.reverse()
Reverse(seq) == [i \in 1..Len(seq) |-> seq[Len(seq) + 1 - i]]

\* the conversation the for loop is at
CurrentChannel == unreadChannels[chIdx]

\* getAuthenticatedClient(options.workspace)
UnGetClient ==
    /\ pc = "un_client"
    /\ \/ pc' = "un_counts" /\ UNCHANGED exitCode
       \/ Fail
    /\ UNCHANGED unVars
    /\ UnOnly

\* getUserCounts, the filters, the sort and the summary branch
UnGetCounts ==
    /\ pc = "un_counts"
    /\ \/ /\ Fail
          /\ UNCHANGED <<allChannels, unreadChannels, outcome>>
       \/ \E resp \in CountsResponses :
            LET filtered == FilterChannels(resp, options)
            IN  /\ allChannels' = resp
                /\ IF options.channel # "" /\ Len(filtered) = 0
                   THEN /\ UNCHANGED unreadChannels
                        /\ IF ChannelExists(resp, options.channel)
                           THEN outcome' = "no_unread_in_channel" /\ Return
                           ELSE outcome' = "channel_not_found" /\ Fail
                   ELSE /\ unreadChannels' = SortByUnread(filtered)
                        /\ IF ~options.show
                           THEN /\ outcome' = IF Len(filtered) = 0
                                              THEN "summary_all_caught_up"
                                              ELSE "summary"
                                /\ Return
                           ELSE /\ pc' = "un_info"
                                /\ UNCHANGED <<exitCode, outcome>>
    /\ UNCHANGED <<options, chIdx, lastRead, messages, userIds, users,
                   totalMessagesShown, latestTimestamps, markIdx,
                   fetchedHistory, shown, userLookups, markCalls,
                   reportedMarked>>
    /\ UnOnly

\* client.getConversationInfo(channel.id)
UnGetInfo ==
    /\ pc = "un_info"
    /\ chIdx <= Len(unreadChannels)
    /\ \/ \E last_read \in LastReads :
            /\ lastRead' = LastReadOrZero(last_read)
            /\ fetchedHistory' =
                  [fetchedHistory EXCEPT ![CurrentChannel.id].last_read =
                                             last_read]
            /\ pc' = "un_history"
            /\ UNCHANGED exitCode
       \/ Fail /\ UNCHANGED <<lastRead, fetchedHistory>>
    /\ UNCHANGED <<options, allChannels, unreadChannels, chIdx, messages,
                   userIds, users, totalMessagesShown, latestTimestamps,
                   markIdx, shown, userLookups, markCalls, reportedMarked,
                   outcome>>
    /\ UnOnly

\* a test that lets a conversation without unread messages go on
NeverSkipped(msgs) == FALSE

\* if (messages.length === 0) continue
NothingUnread(msgs) == Len(msgs) = 0

\* client.getConversationHistory, the re-filter, latestTs and the user
\* placeholders
UnGetHistory ==
    /\ pc = "un_history"
    /\ \/ \E h \in Histories :
            LET unread == SelectSeq(h, LAMBDA msg : IsUnread(msg.ts, lastRead))
                id == CurrentChannel.id
            IN  /\ fetchedHistory' =
                      [fetchedHistory EXCEPT ![id].fetched = TRUE,
                                             ![id].returned = h]
                /\ UNCHANGED exitCode
                /\ IF NothingUnread(unread)
                   THEN /\ chIdx' = chIdx + 1
                        /\ pc' = "un_info"
                        /\ UNCHANGED <<messages, userIds, users,
                                       latestTimestamps>>
                   ELSE /\ messages' = unread
                        /\ latestTimestamps' =
                              MapSet(latestTimestamps, id, LatestTs(unread))
                        /\ users' = SetPlaceholders(users, unread)
                        /\ userIds' = DistinctUsers(unread, {})
                        /\ pc' = "un_users"
                        /\ UNCHANGED chIdx
       \/ /\ Fail
          /\ UNCHANGED <<fetchedHistory, chIdx, messages, userIds, users,
                         latestTimestamps>>
    /\ UNCHANGED <<options, allChannels, unreadChannels, lastRead,
                   totalMessagesShown, markIdx, shown, userLookups, markCalls,
                   reportedMarked, outcome>>
    /\ UnOnly

\* one iteration of for (const userId of userIds)
UnGetUserInfo ==
    /\ pc = "un_users"
    /\ userIds # <<>>
    /\ LET userId == Head(userIds)
       IN  IF users[userId].real_name = ""
           THEN \/ /\ userLookups' = Append(userLookups,
                                           [user |-> userId, ok |-> TRUE])
                   /\ users' = [users EXCEPT ![userId].real_name = "name"]
                \/ /\ userLookups' = Append(userLookups,
                                           [user |-> userId, ok |-> FALSE])
                   /\ UNCHANGED users
           ELSE UNCHANGED <<userLookups, users>>
    /\ userIds' = Tail(userIds)
    /\ UNCHANGED <<pc, exitCode, options, allChannels, unreadChannels, chIdx,
                   lastRead, messages, totalMessagesShown, latestTimestamps,
                   markIdx, fetchedHistory, shown, markCalls, reportedMarked,
                   outcome>>
    /\ UnOnly

\* the header and the messages are printed, oldest first
UnPrint ==
    /\ pc = "un_users"
    /\ userIds = <<>>
    /\ shown' = [shown EXCEPT ![CurrentChannel.id] = Reverse(messages)]
    /\ totalMessagesShown' = totalMessagesShown + Len(messages)
    /\ chIdx' = chIdx + 1
    /\ pc' = "un_info"
    /\ UNCHANGED <<exitCode, options, allChannels, unreadChannels, lastRead,
                   messages, userIds, users, latestTimestamps, markIdx,
                   fetchedHistory, userLookups, markCalls, reportedMarked,
                   outcome>>
    /\ UnOnly

\* if (options.markRead && latestTimestamps.size > 0)
UnAfterLoop ==
    /\ pc = "un_info"
    /\ chIdx > Len(unreadChannels)
    /\ pc' = IF options.markRead /\ Len(latestTimestamps) > 0
             THEN "un_mark" ELSE "un_finish"
    /\ UNCHANGED <<exitCode, unVars>>
    /\ UnOnly

\* the catch around markConversation: the failure is swallowed
UnMarkCatchAborts == Fail

UnMarkCatch == UNCHANGED <<pc, exitCode>>

\* one iteration of for (const [channelId, latestTs] of latestTimestamps)
UnMark ==
    /\ pc = "un_mark"
    /\ markIdx <= Len(latestTimestamps)
    /\ LET call == [channel |-> latestTimestamps[markIdx][1],
                    ts |-> latestTimestamps[markIdx][2]]
       IN  \/ /\ markCalls' = Append(markCalls, call @@ [ok |-> TRUE])
              /\ UNCHANGED <<pc, exitCode>>
           \/ /\ markCalls' = Append(markCalls, call @@ [ok |-> FALSE])
              /\ UnMarkCatch
    /\ markIdx' = markIdx + 1
    /\ UNCHANGED <<options, allChannels, unreadChannels, chIdx, lastRead,
                   messages, userIds, users, totalMessagesShown,
                   latestTimestamps, fetchedHistory, shown, userLookups,
                   reportedMarked, outcome>>
    /\ UnOnly

\* spinner.succeed(`Marked ${latestTimestamps.size} conversation(s) as read`)
UnMarkReport ==
    /\ pc = "un_mark"
    /\ markIdx > Len(latestTimestamps)
    /\ reportedMarked' = Len(latestTimestamps)
    /\ pc' = "un_finish"
    /\ UNCHANGED <<exitCode, options, allChannels, unreadChannels, chIdx,
                   lastRead, messages, userIds, users, totalMessagesShown,
                   latestTimestamps, markIdx, fetchedHistory, shown,
                   userLookups, markCalls, outcome>>
    /\ UnOnly

\* if (totalMessagesShown === 0) success('All caught up! ...')
UnFinish ==
    /\ pc = "un_finish"
    /\ outcome' = IF totalMessagesShown = 0 THEN "all_caught_up" ELSE "shown"
    /\ Return
    /\ UNCHANGED <<options, allChannels, unreadChannels, chIdx, lastRead,
                   messages, userIds, users, totalMessagesShown,
                   latestTimestamps, markIdx, fetchedHistory, shown,
                   userLookups, markCalls, reportedMarked>>
    /\ UnOnly

InitUnread ==
    /\ pc = "un_client"
    /\ exitCode = -1
    /\ DlIdle
    /\ RdIdle
    /\ ScIdle
    /\ DrIdle
    /\ VttIdle
    /\ options \in [channel : ChannelOptions, show : BOOLEAN,
                    markRead : BOOLEAN, includeMuted : BOOLEAN]
    /\ allChannels = <<>>
    /\ unreadChannels = <<>>
    /\ chIdx = 1
    /\ lastRead = Empty
    /\ messages = <<>>
    /\ userIds = <<>>
    /\ users = <<>>
    /\ totalMessagesShown = 0
    /\ latestTimestamps = <<>>
    /\ markIdx = 1
    /\ fetchedHistory = [c \in ChannelIdSet |-> NoHistory]
    /\ shown = [c \in ChannelIdSet |-> <<>>]
    /\ userLookups = <<>>
    /\ markCalls = <<>>
    /\ reportedMarked = -1
    /\ outcome = "none"

NextUnread ==
    \/ UnGetClient \/ UnGetCounts \/ UnGetInfo \/ UnGetHistory
    \/ UnGetUserInfo \/ UnPrint \/ UnAfterLoop \/ UnMark \/ UnMarkReport
    \/ UnFinish

SpecUnread == InitUnread /\ [][NextUnread]_vars

(***************************************************************************)
(* conversations read.                                                     *)
(***************************************************************************)
\* a remote call, as the log keeps it
NoCall == [op |-> "", msg |-> 0, file |-> 0, ids |-> <<>>, user |-> "",
           ok |-> TRUE, content |-> Empty, replies |-> <<>>]

\* a fetched message, before any enrichment
Unenriched(m) ==
    m @@ [transcript |-> Empty, has_thread_replies |-> FALSE,
          thread_replies |-> <<>>]

\* messages.filter(msg => !msg.thread_ts || msg.thread_ts === msg.ts)
TopLevelOnly(msgs) ==
    SelectSeq(msgs, LAMBDA m : m.thread_ts = Empty \/ m.thread_ts = m.ts)

\* the user ids of the batch, as the Set collects them
BatchUserIds(msgs) == DistinctUsers(msgs, {})

\* users.set(user.id, user) for each user of the response
RECURSIVE SetUsers(_, _)
SetUsers(map, ids) ==
    IF ids = <<>> THEN map
    ELSE SetUsers([x \in DOMAIN map \cup {Head(ids)} |->
                      IF x = Head(ids)
                      THEN [id |-> x, real_name |-> "name"]
                      ELSE map[x]],
                  Tail(ids))

\* a test that does not look at the transcription status
HasVtt(file) == file.vtt # Empty

\* file.transcription?.status === 'complete' && file.vtt
HasTranscript(file) == file.transcription = "complete" /\ file.vtt # Empty

\* the indices of the messages a filter keeps
IndicesWhere(msgs, Test(_)) ==
    SelectSeq([i \in 1..Len(msgs) |-> i], LAMBDA i : Test(msgs[i]))

\* messages.filter(msg => msg.files?.some(...))
VideosToFetch(msgs) ==
    IndicesWhere(msgs, LAMBDA m :
        \E k \in 1..Len(m.files) : HasTranscript(m.files[k]))

\* messages.filter(msg => (msg.reply_count ?? 0) > 0)
ThreadParents(msgs) == IndicesWhere(msgs, LAMBDA m : m.reply_count > 0)

\* what fetchFileContent may do: throw, or return a payload
FetchResults ==
    {[ok |-> FALSE, content |-> Empty]} \cup
    {[ok |-> TRUE, content |-> p] : p \in VttPayloads}

\* the fetch results of the files of one message, file by file; a file that
\* is not fetched has none
FileOutcomes(files) ==
    { r \in [1..Len(files) -> FetchResults] :
        \A k \in 1..Len(files) : ~HasTranscript(files[k]) => ~r[k].ok }

\* transcripts, as the inner loop over msg.files collects them
Transcripts(files, results) ==
    SelectSeq([k \in 1..Len(files) |->
                  IF HasTranscript(files[k]) /\ results[k].ok
                  THEN parseVttToText(results[k].content) ELSE Empty],
              LAMBDA text : text # Empty)

\* the fetchFileContent calls of the inner loop
TranscriptCalls(i, files, results) ==
    LET fetchedFiles == SelectSeq([k \in 1..Len(files) |-> k],
                                  LAMBDA k : HasTranscript(files[k]))
    IN  [n \in 1..Len(fetchedFiles) |->
            [NoCall EXCEPT !.op = "fetchFileContent", !.msg = i,
                           !.file = fetchedFiles[n],
                           !.ok = results[fetchedFiles[n]].ok,
                           !.content = results[fetchedFiles[n]].content]]

\* a slice that keeps the thread root
SliceFromZero(replies) == replies

\* replies.slice(1)
SliceFromOne(replies) == SubSeq(replies, 2, Len(replies))

\* the loop over threadReplies that looks up unknown reply authors; found[k]
\* tells whether a lookup made for reply k returns a user
RECURSIVE LookupReplyUsers(_, _, _, _)
LookupReplyUsers(threadReplies, k, found, acc) ==
    IF k > Len(threadReplies) THEN acc
    ELSE LET user == threadReplies[k].user
         IN  IF user # "" /\ user \notin DOMAIN acc.users
             THEN LookupReplyUsers(threadReplies, k + 1, found,
                     [users |-> IF found[k] THEN SetUsers(acc.users, <<user>>)
                                ELSE acc.users,
                      calls |-> Append(acc.calls,
                                   [NoCall EXCEPT !.op = "getUserInfo",
                                                  !.user = user,
                                                  !.ok = found[k]])])
             ELSE LookupReplyUsers(threadReplies, k + 1, found, acc)

\* the catch around one file's transcript fetch and the catch around one
\* thread's expansion: both log and go on
RdCatchAborts == Fail

RdFileCatch == UNCHANGED <<pc, exitCode>>

RdThreadCatch == UNCHANGED <<pc, exitCode>>

\* getAuthenticatedClient(options.workspace)
RdGetClient ==
    /\ pc = "rd_client"
    /\ \/ pc' = "rd_fetch" /\ UNCHANGED exitCode
       \/ Fail
    /\ UNCHANGED rdVars
    /\ RdOnly

\* getConversationReplies or getConversationHistory, --exclude-replies and
\* --oldest-first
RdFetch ==
    /\ pc = "rd_fetch"
    /\ LET op == IF rdOptions.threadTs # Empty THEN "getConversationReplies"
                 ELSE "getConversationHistory"
       IN  \/ /\ Fail
              /\ rdCalls' = Append(rdCalls,
                               [NoCall EXCEPT !.op = op, !.ok = FALSE])
              /\ UNCHANGED rdMessages
           \/ \E response \in ReadResponses :
                LET kept == IF rdOptions.threadTs = Empty
                               /\ rdOptions.excludeReplies
                            THEN TopLevelOnly(response) ELSE response
                    ordered == IF rdOptions.oldestFirst THEN Reverse(kept)
                               ELSE kept
                IN  /\ rdMessages' = MapSeq(ordered, Unenriched)
                    /\ rdCalls' = Append(rdCalls, [NoCall EXCEPT !.op = op])
                    /\ pc' = "rd_users"
                    /\ UNCHANGED exitCode
    /\ UNCHANGED <<rdOptions, rdUsers, rdQueue, rdPrinted>>
    /\ RdOnly

\* the batch lookup client.getUsersInfo(Array.from(userIds)), then the
\* start of fetchTranscriptsForMessages
RdGetUsers ==
    /\ pc = "rd_users"
    /\ LET ids == BatchUserIds(rdMessages)
           call == [NoCall EXCEPT !.op = "getUsersInfo", !.ids = ids]
           goOn == /\ pc' = "rd_transcripts"
                   /\ rdQueue' = IF rdOptions.includeTranscripts
                                 THEN VideosToFetch(rdMessages) ELSE <<>>
                   /\ UNCHANGED exitCode
       IN  IF ids = <<>>
           THEN goOn /\ UNCHANGED <<rdUsers, rdCalls>>
           ELSE \/ /\ rdCalls' = Append(rdCalls, call)
                   /\ rdUsers' = SetUsers(rdUsers, ids)
                   /\ goOn
                \/ /\ rdCalls' = Append(rdCalls, call)
                   /\ UNCHANGED rdUsers
                   /\ goOn
                \/ /\ rdCalls' = Append(rdCalls, [call EXCEPT !.ok = FALSE])
                   /\ Fail
                   /\ UNCHANGED <<rdUsers, rdQueue>>
    /\ UNCHANGED <<rdOptions, rdMessages, rdPrinted>>
    /\ RdOnly

\* one iteration of for (const msg of videosToFetch)
RdTranscript ==
    /\ pc = "rd_transcripts"
    /\ rdQueue # <<>>
    /\ LET i == Head(rdQueue)
           files == rdMessages[i].files
       IN  \E results \in FileOutcomes(files) :
              LET transcripts == Transcripts(files, results)
              IN  /\ rdCalls' = rdCalls \o TranscriptCalls(i, files, results)
                  /\ rdMessages' =
                        IF Len(transcripts) > 0
                        THEN [rdMessages EXCEPT ![i].transcript =
                                 JoinWith(transcripts, <<"\n", "\n">>)]
                        ELSE rdMessages
                  /\ IF \E k \in 1..Len(files) :
                            HasTranscript(files[k]) /\ ~results[k].ok
                     THEN RdFileCatch
                     ELSE UNCHANGED <<pc, exitCode>>
    /\ rdQueue' = Tail(rdQueue)
    /\ UNCHANGED <<rdOptions, rdUsers, rdPrinted>>
    /\ RdOnly

\* fetchTranscriptsForMessages is over; fetchThreadRepliesForMessages starts
RdStartThreads ==
    /\ pc = "rd_transcripts"
    /\ rdQueue = <<>>
    /\ pc' = "rd_threads"
    /\ rdQueue' = IF rdOptions.includeThreads THEN ThreadParents(rdMessages)
                  ELSE <<>>
    /\ UNCHANGED <<exitCode, rdOptions, rdMessages, rdUsers, rdCalls,
                   rdPrinted>>
    /\ RdOnly

\* one iteration of for (const msg of threadParents)
RdThread ==
    /\ pc = "rd_threads"
    /\ rdQueue # <<>>
    /\ LET i == Head(rdQueue)
           call == [NoCall EXCEPT !.op = "getConversationReplies", !.msg = i]
       IN  \/ /\ rdCalls' = Append(rdCalls, [call EXCEPT !.ok = FALSE])
              /\ RdThreadCatch
              /\ UNCHANGED <<rdMessages, rdUsers>>
           \/ \E replies \in ThreadResponses(rdMessages[i].ts) :
                LET threadReplies == SliceFromOne(replies)
                IN  \E found \in [1..Len(threadReplies) -> BOOLEAN] :
                      LET done == LookupReplyUsers(threadReplies, 1, found,
                                     [users |-> rdUsers, calls |-> <<>>])
                      IN  /\ rdCalls' =
                                Append(rdCalls,
                                       [call EXCEPT !.replies = replies])
                                \o done.calls
                          /\ rdUsers' = done.users
                          /\ rdMessages' =
                                [rdMessages EXCEPT
                                    ![i].has_thread_replies = TRUE,
                                    ![i].thread_replies = threadReplies]
                          /\ UNCHANGED <<pc, exitCode>>
    /\ rdQueue' = Tail(rdQueue)
    /\ UNCHANGED <<rdOptions, rdPrinted>>
    /\ RdOnly

\* spinner.succeed and the JSON or text output
RdOutput ==
    /\ pc = "rd_threads"
    /\ rdQueue = <<>>
    /\ rdPrinted' = rdMessages
    /\ Return
    /\ UNCHANGED <<rdOptions, rdMessages, rdUsers, rdQueue, rdCalls>>
    /\ RdOnly

InitRead ==
    /\ pc = "rd_client"
    /\ exitCode = -1
    /\ DlIdle
    /\ UnIdle
    /\ ScIdle
    /\ DrIdle
    /\ VttIdle
    /\ rdOptions \in ReadOptionSets
    /\ rdMessages = <<>>
    /\ rdUsers = <<>>
    /\ rdQueue = <<>>
    /\ rdCalls = <<>>
    /\ rdPrinted = <<>>

NextRead ==
    \/ RdGetClient \/ RdFetch \/ RdGetUsers \/ RdTranscript
    \/ RdStartThreads \/ RdThread \/ RdOutput

SpecRead == InitRead /\ [][NextRead]_vars

(***************************************************************************)
(* messages schedule.                                                      *)
(***************************************************************************)
\* parseInt(s, 10) of a string of digits
RECURSIVE ParseDigits(_, _)
ParseDigits(s, acc) ==
    IF s = <<>> THEN acc
    ELSE ParseDigits(Tail(s), 10 * acc + (CharCode(Head(s)) - 48))

ParseInt(s) == ParseDigits(s, 0)

\* Math.floor(ms / 1000)
FloorSeconds(t) == t.seconds + (t.millis \div 1000)

\* a validation that lets the current second through
IsPastStrict(at, current) == at < current

\* if (postAt <= now) throw
IsPast(at, current) == at <= current

\* a validation that also refuses the last second of the 120 days
IsTooFarInclusive(at, maxTime) == at >= maxTime

\* if (postAt > maxTime) throw
IsTooFar(at, maxTime) == at > maxTime

\* a remote call of the messages commands, as the log keeps it
NoMessageCall ==
    [op |-> "", channel |-> Empty, post_at |-> -1, ok |-> TRUE,
     returned |-> Empty]

\* a check that sends every recipient id to the client as it is
NeedsNoDm(recipientId) == FALSE

\* options.recipientId.startsWith('U')
NeedsDm(recipientId) == StartsWith(recipientId, <<"U">>)

\* the conversation openConversation returns for a user
DmChannelOf(userId) == <<"D">> \o Tail(userId)

\* getAuthenticatedClient(options.workspace)
ScGetClient ==
    /\ pc = "sc_client"
    /\ \/ pc' = "sc_validate" /\ UNCHANGED <<exitCode, scError>>
       \/ Fail /\ scError' = "client"
    /\ UNCHANGED <<scOptions, now, postAt, channelId, scCalls>>
    /\ ScOnly

\* the parse of --time and the two validations
ScValidate ==
    /\ pc = "sc_validate"
    /\ LET time == scOptions.time
           unix == AllDigits(time.text)
       IN  IF ~unix /\ ~time.dateValid
           THEN /\ scError' = "invalid_date"
                /\ Fail
                /\ UNCHANGED <<now, postAt, channelId>>
           ELSE \E clock \in ClockReadings :
                  LET at == IF unix THEN ParseInt(time.text)
                            ELSE FloorSeconds(time.dateMs)
                      current == FloorSeconds(clock)
                      maxTime == current + MaxAheadSeconds
                  IN  /\ postAt' = at
                      /\ now' = current
                      /\ IF IsPast(at, current)
                         THEN /\ scError' = "not_in_future"
                              /\ Fail
                              /\ UNCHANGED channelId
                         ELSE IF IsTooFar(at, maxTime)
                         THEN /\ scError' = "too_far"
                              /\ Fail
                              /\ UNCHANGED channelId
                         ELSE /\ channelId' = scOptions.recipientId
                              /\ pc' = IF NeedsDm(scOptions.recipientId)
                                       THEN "sc_open" ELSE "sc_schedule"
                              /\ UNCHANGED <<exitCode, scError>>
    /\ UNCHANGED <<scOptions, scCalls>>
    /\ ScOnly

\* client.openConversation(options.recipientId)
ScOpen ==
    /\ pc = "sc_open"
    /\ LET call == [NoMessageCall EXCEPT !.op = "openConversation",
                                         !.channel = scOptions.recipientId]
       IN  \/ /\ scCalls' =
                    Append(scCalls,
                           [call EXCEPT !.returned =
                               DmChannelOf(scOptions.recipientId)])
              /\ channelId' = DmChannelOf(scOptions.recipientId)
              /\ pc' = "sc_schedule"
              /\ UNCHANGED <<exitCode, scError>>
           \/ /\ scCalls' = Append(scCalls, [call EXCEPT !.ok = FALSE])
              /\ scError' = "remote"
              /\ Fail
              /\ UNCHANGED channelId
    /\ UNCHANGED <<scOptions, now, postAt>>
    /\ ScOnly

\* client.scheduleMessage(channelId, options.message, postAt, ...)
ScSchedule ==
    /\ pc = "sc_schedule"
    /\ LET call == [NoMessageCall EXCEPT !.op = "scheduleMessage",
                                         !.channel = channelId,
                                         !.post_at = postAt]
       IN  \/ /\ scCalls' = Append(scCalls, call)
              /\ Return
              /\ UNCHANGED scError
           \/ /\ scCalls' = Append(scCalls, [call EXCEPT !.ok = FALSE])
              /\ scError' = "remote"
              /\ Fail
    /\ UNCHANGED <<scOptions, now, postAt, channelId>>
    /\ ScOnly

InitSchedule ==
    /\ pc = "sc_client"
    /\ exitCode = -1
    /\ DlIdle
    /\ UnIdle
    /\ RdIdle
    /\ DrIdle
    /\ VttIdle
    /\ scOptions \in [recipientId : RecipientOptions, time : TimeOptions]
    /\ now = -1
    /\ postAt = -1
    /\ channelId = Empty
    /\ scCalls = <<>>
    /\ scError = ""

NextSchedule == ScGetClient \/ ScValidate \/ ScOpen \/ ScSchedule

SpecSchedule == InitSchedule /\ [][NextSchedule]_vars

(***************************************************************************)
(* messages send.                                                          *)
(***************************************************************************)
\* getAuthenticatedClient(options.workspace), then let channelId
SnGetClient ==
    /\ pc = "sn_client"
    /\ \/ /\ channelId' = scOptions.recipientId
          /\ pc' = IF NeedsDm(scOptions.recipientId)
                   THEN "sn_open" ELSE "sn_post"
          /\ UNCHANGED <<exitCode, scError>>
       \/ /\ Fail
          /\ scError' = "client"
          /\ UNCHANGED channelId
    /\ UNCHANGED <<scOptions, now, postAt, scCalls>>
    /\ ScOnly

\* client.openConversation(options.recipientId)
SnOpen ==
    /\ pc = "sn_open"
    /\ LET call == [NoMessageCall EXCEPT !.op = "openConversation",
                                         !.channel = scOptions.recipientId]
       IN  \/ /\ scCalls' =
                    Append(scCalls,
                           [call EXCEPT !.returned =
                               DmChannelOf(scOptions.recipientId)])
              /\ channelId' = DmChannelOf(scOptions.recipientId)
              /\ pc' = "sn_post"
              /\ UNCHANGED <<exitCode, scError>>
           \/ /\ scCalls' = Append(scCalls, [call EXCEPT !.ok = FALSE])
              /\ scError' = "remote"
              /\ Fail
              /\ UNCHANGED channelId
    /\ UNCHANGED <<scOptions, now, postAt>>
    /\ ScOnly

\* client.postMessage(channelId, options.message, ...)
SnPost ==
    /\ pc = "sn_post"
    /\ LET call == [NoMessageCall EXCEPT !.op = "postMessage",
                                         !.channel = channelId]
       IN  \/ /\ scCalls' = Append(scCalls, call)
              /\ Return
              /\ UNCHANGED scError
           \/ /\ scCalls' = Append(scCalls, [call EXCEPT !.ok = FALSE])
              /\ scError' = "remote"
              /\ Fail
    /\ UNCHANGED <<scOptions, now, postAt, channelId>>
    /\ ScOnly

InitSend ==
    /\ pc = "sn_client"
    /\ exitCode = -1
    /\ DlIdle
    /\ UnIdle
    /\ RdIdle
    /\ DrIdle
    /\ VttIdle
    /\ scOptions \in [recipientId : RecipientOptions, time : {NoTime}]
    /\ now = -1
    /\ postAt = -1
    /\ channelId = Empty
    /\ scCalls = <<>>
    /\ scError = ""

\* messages send or messages schedule
InitMessages == InitSend \/ InitSchedule

NextMessages ==
    \/ SnGetClient \/ SnOpen \/ SnPost
    \/ ScGetClient \/ ScValidate \/ ScOpen \/ ScSchedule

SpecMessages == InitMessages /\ [][NextMessages]_vars

(***************************************************************************)
(* drafts list, drafts create, drafts delete.                              *)
(***************************************************************************)
\* the catch of the three actions: spinner.stop(), error(...), and the
\* action returns
DrCatch == drReport' = "error" /\ Return

\* the status printed with --all
DraftStatus(draft) ==
    IF draft.is_deleted THEN "Deleted"
    ELSE IF draft.is_sent THEN "Sent" ELSE "Active"

\* what draftsToShow.forEach prints
ShownDrafts(drafts, all) ==
    [n \in 1..Len(drafts) |->
        [id |-> drafts[n].id,
         channel |-> IF drafts[n].channel_id = "" THEN "Unknown"
                     ELSE drafts[n].channel_id,
         status |-> IF all THEN DraftStatus(drafts[n]) ELSE ""]]

\* getAuthenticatedClient(options.workspace)
DrGetClient ==
    /\ pc = "dr_client"
    /\ \/ pc' = "dr_call" /\ UNCHANGED <<exitCode, drReport>>
       \/ DrCatch
    /\ UNCHANGED <<drCommand, drAll, drCalls, drShown>>
    /\ DrOnly

\* client.listDrafts({ all }) and the listing
DrList ==
    /\ pc = "dr_call"
    /\ drCommand = "list"
    /\ \/ /\ drCalls' = Append(drCalls, [op |-> "listDrafts", ok |-> TRUE])
          /\ \E drafts \in DraftResponses :
                drShown' = ShownDrafts(drafts, drAll)
          /\ drReport' = "success"
          /\ Return
       \/ /\ drCalls' = Append(drCalls, [op |-> "listDrafts", ok |-> FALSE])
          /\ DrCatch
          /\ UNCHANGED drShown
    /\ UNCHANGED <<drCommand, drAll>>
    /\ DrOnly

\* client.createDraft({ channelId, text })
DrCreate ==
    /\ pc = "dr_call"
    /\ drCommand = "create"
    /\ \/ /\ drCalls' = Append(drCalls, [op |-> "createDraft", ok |-> TRUE])
          /\ drReport' = "success"
          /\ Return
       \/ /\ drCalls' = Append(drCalls, [op |-> "createDraft", ok |-> FALSE])
          /\ DrCatch
    /\ UNCHANGED <<drCommand, drAll, drShown>>
    /\ DrOnly

\* client.deleteDraft(options.draftId)
DrDelete ==
    /\ pc = "dr_call"
    /\ drCommand = "delete"
    /\ \/ /\ drCalls' = Append(drCalls, [op |-> "deleteDraft", ok |-> TRUE])
          /\ drReport' = "success"
          /\ Return
       \/ /\ drCalls' = Append(drCalls, [op |-> "deleteDraft", ok |-> FALSE])
          /\ DrCatch
    /\ UNCHANGED <<drCommand, drAll, drShown>>
    /\ DrOnly

InitDrafts ==
    /\ pc = "dr_client"
    /\ exitCode = -1
    /\ DlIdle
    /\ UnIdle
    /\ RdIdle
    /\ ScIdle
    /\ VttIdle
    /\ drCommand \in DraftCommands
    /\ drAll \in BOOLEAN
    /\ drCalls = <<>>
    /\ drShown = <<>>
    /\ drReport = ""

NextDrafts == DrGetClient \/ DrList \/ DrCreate \/ DrDelete

SpecDrafts == InitDrafts /\ [][NextDrafts]_vars

(***************************************************************************)
(* parseVttToText, applied to a payload.                                   *)
(***************************************************************************)
VttParse ==
    /\ pc = "vtt_parse"
    /\ vttText' = parseVttToText(vttContent)
    /\ pc' = "done"
    /\ UNCHANGED <<exitCode, vttLines, vttContent>>
    /\ VttOnly

InitVtt ==
    /\ pc = "vtt_parse"
    /\ exitCode = -1
    /\ DlIdle
    /\ UnIdle
    /\ RdIdle
    /\ ScIdle
    /\ DrIdle
    /\ vttLines \in VttLineLists
    /\ vttContent = JoinWith(MapSeq(vttLines, LAMBDA l : l.raw), <<"\n">>)
    /\ vttText = Empty

NextVtt == VttParse

SpecVtt == InitVtt /\ [][NextVtt]_vars

(***************************************************************************)
(* files download-all: properties.                                         *)
(***************************************************************************)
\* the loop ran to its end and the summary was printed
DlFinished == pc = "done" /\ reported # NoReport

\* the listed file has a download URL and is not deleted
Downloadable(file) ==
    /\ file.url_private_download # Empty \/ file.url_private # Empty
    /\ file.mode # "tombstone"

\* base names of the listings, split by hand into stem and extension
NameParts ==
    { [stem |-> <<"a">>, ext |-> <<".", "t">>],
      [stem |-> <<"a", "_", "1">>, ext |-> <<".", "t">>],
      [stem |-> <<"c">>, ext |-> <<".", "b", "i", "n">>],
      [stem |-> <<"x", ".", "y">>, ext |-> <<".", "t">>] }

\* name_k.ext in the output directory
Suffixed(base, k) ==
    LET p == CHOOSE q \in NameParts : q.stem \o q.ext = base
    IN  <<"d", "/">> \o p.stem \o <<"_">> \o <<DigitChar(k)>> \o p.ext

\* all listed files are downloadable and map to the base name `base`
SameBaseListing(base) ==
    /\ Len(fileList) > 0
    /\ \A i \in 1..Len(fileList) :
          /\ Downloadable(fileList[i])
          /\ IF fileList[i].name # Empty THEN fileList[i].name = base
             ELSE /\ fileList[i].filetype = <<"t">>
                  /\ fileList[i].id \o <<".", "t">> = base

BaseNames == { q.stem \o q.ext : q \in NameParts }

\* the writes that put a file in place
GoodWrites == SelectSeq(written, LAMBDA w : w.ok)

\* how many of the first j writes found the base name taken
Collisions(j) == Cardinality({ i \in 1..j : written[i].collided })

\* every download and write of the batch succeeded
AllSucceeded == DlFinished /\ reported.failed = 0

NoPriorSuffixed(base) ==
    \A k \in 1..Len(fileList) : Suffixed(base, k) \notin priorFiles

CurrentFile == fileList[fileIdx]

\* C4: a file whose mode is "tombstone" triggers no fetchFileBinary call and
\* no write, and it increments skippedCount only, with or without a URL.
C4_TombstoneOnlySkipped ==
    [][(pc = "dl_loop" /\ fileIdx <= Len(fileList)
        /\ CurrentFile.mode = "tombstone") =>
            /\ fetched' = fetched
            /\ written' = written
            /\ dirFiles' = dirFiles
            /\ skippedCount' = skippedCount + 1
            /\ failedCount' = failedCount
            /\ downloadedCount' = downloadedCount]_vars

C4_Witness ==
    /\ DlFinished
    /\ \E i \in 1..Len(fileList) :
          /\ fileList[i].mode = "tombstone"
          /\ fileList[i].url_private_download # Empty
          /\ dlLog[i] = "skipped"
    /\ \E i \in 1..Len(fileList) :
          /\ fileList[i].mode = "tombstone"
          /\ fileList[i].url_private_download = Empty
          /\ fileList[i].url_private = Empty
    /\ reported.skipped >= 2

\* C5: after the loop downloaded + failed + skipped is the number of listed
\* files (and during it, the number of files processed so far).
C5_CountsSumToListed ==
    /\ pc = "dl_loop" =>
          downloadedCount + failedCount + skippedCount = fileIdx - 1
    /\ DlFinished =>
          /\ reported.downloaded + reported.failed + reported.skipped
                = Len(fileList)
          /\ reported.downloaded >= 0
          /\ reported.failed >= 0
          /\ reported.skipped >= 0

C5_Witness ==
    /\ DlFinished
    /\ reported.downloaded > 0
    /\ reported.failed > 0
    /\ reported.skipped > 0

\* how many files of the log ended as `what`
LogCount(what) == Cardinality({ i \in 1..Len(dlLog) : dlLog[i] = what })

\* C6: a failed download or write is counted under failed and aborts
\* nothing: every listed file is processed, the summary is printed and the
\* exit code is 0; exit code 1 occurs only before any file is processed
\* (client setup, directory creation or the listing fetch failed).
C6_FailureDoesNotAbortBatch ==
    /\ Len(dlLog) > 0 =>
          /\ exitCode # 1
          /\ failedCount = LogCount("failed")
          /\ pc = "dl_loop" => Len(dlLog) = fileIdx - 1
          /\ pc = "done" =>
                /\ exitCode = 0
                /\ Len(dlLog) = Len(fileList)
                /\ reported.failed = LogCount("failed")
    /\ exitCode = 1 => (pc = "done" /\ fileList = <<>> /\ reported = NoReport)

C6_Witness ==
    /\ pc = "done"
    /\ exitCode = 0
    /\ Len(dlLog) >= 3
    /\ dlLog[1] = "failed"
    /\ dlLog[2] = "downloaded"
    /\ dlLog[3] = "failed"
    /\ \E i \in 1..Len(written) : ~written[i].ok
    /\ reported.failed = 2

(***************************************************************************)
(* conversations unread: properties.                                       *)
(***************************************************************************)
\* the number a string of digits denotes
DigitValue(c) == CharCode(c) - 48

RECURSIVE TsValue(_)
TsValue(ts) ==
    IF ts = <<>> THEN 0
    ELSE 10 * TsValue(SubSeq(ts, 1, Len(ts) - 1)) + DigitValue(ts[Len(ts)])

Range(seq) == { seq[i] : i \in 1..Len(seq) }

\* C1: every markConversation call passes the maximum ts among the
\* messages shown for that same conversation: a ts of one of its shown
\* messages that is not less than the ts of any of them.
C1_MarkUsesOwnMaximum ==
    \A i \in 1..Len(markCalls) :
        LET call == markCalls[i]
            msgs == Range(shown[call.channel])
        IN  /\ options.show /\ options.markRead
            /\ \E m \in msgs : m.ts = call.ts
            /\ \A m \in msgs : TsValue(call.ts) >= TsValue(m.ts)

C1_Witness ==
    /\ Len(markCalls) = 2
    /\ markCalls[1].ts # markCalls[2].ts
    /\ Len(shown[markCalls[1].channel]) = 2
    /\ Len(shown[markCalls[2].channel]) = 2
    /\ fetchedHistory["A"].returned[1].ts = T09
    /\ fetchedHistory["B"].returned[2].ts = T09

\* the messages the command is about to count and print for the current
\* conversation, or has printed for an earlier one
CountedOrShown(c) ==
    Range(shown[c]) \cup
        IF pc = "un_users" /\ CurrentChannel.id = c THEN Range(messages)
        ELSE {}

RECURSIVE SumShown(_)
SumShown(cs) ==
    IF cs = {} THEN 0
    ELSE LET c == CHOOSE x \in cs : TRUE
         IN  Len(shown[c]) + SumShown(cs \ {c})

\* C2: for a conversation whose watermark is last_read = T, no message with
\* ts <= T is shown or counted, whatever the history call returned.
C2_NothingAtOrBeforeWatermarkShown ==
    /\ \A c \in ChannelIdSet :
          fetchedHistory[c].last_read # Empty =>
              \A m \in CountedOrShown(c) :
                  /\ TsValue(m.ts) > TsValue(fetchedHistory[c].last_read)
                  /\ m \in Range(fetchedHistory[c].returned)
    /\ totalMessagesShown = SumShown(ChannelIdSet)

C2_Witness ==
    /\ pc = "done"
    /\ fetchedHistory["A"].last_read = T10
    /\ { m.ts : m \in Range(fetchedHistory["A"].returned) } = {T10, T11}
    /\ { m.ts : m \in Range(shown["A"]) } = {T11}
    /\ fetchedHistory["B"].last_read = T10
    /\ { m.ts : m \in Range(fetchedHistory["B"].returned) } = {T09, T11}
    /\ totalMessagesShown = 2

\* C8: a failed mark-read call aborts nothing: the call is still issued for
\* every conversation with a tracked maximum ts, in order, and the command
\* ends with exit code 0.
C8_MarkFailureDoesNotStopOthers ==
    /\ markCalls # <<>> => exitCode # 1
    /\ pc = "un_mark" => Len(markCalls) = markIdx - 1
    /\ (pc \in {"un_finish", "done"} /\ exitCode # 1
        /\ options.show /\ options.markRead) =>
          /\ Len(markCalls) = Len(latestTimestamps)
          /\ \A i \in 1..Len(markCalls) :
                /\ markCalls[i].channel = latestTimestamps[i][1]
                /\ markCalls[i].ts = latestTimestamps[i][2]

C8_Witness ==
    /\ pc = "done"
    /\ exitCode = 0
    /\ Len(markCalls) = 2
    /\ ~markCalls[1].ok
    /\ markCalls[2].ok

\* how many mark-read calls succeeded
MarkedOk == Cardinality({ i \in 1..Len(markCalls) : markCalls[i].ok })

\* C9: the reported number of conversations marked as read is the number
\* of mark-read calls that succeeded.
C9_ReportCountsSuccessfulMarks ==
    reportedMarked # -1 => reportedMarked = MarkedOk

\* C18: once a lookup for a user has succeeded and stored the profile,
\* no later lookup is made for that user, across the conversations
\* processed by `conversations unread --show`.
C18_UserNeverRefetched ==
    \A a, b \in 1..Len(userLookups) :
        (a < b /\ userLookups[a].ok) =>
            userLookups[b].user # userLookups[a].user

(***************************************************************************)
(* conversations read: properties.                                         *)
(***************************************************************************)
\* the calls of the log made for message i by operation op
CallsFor(op, i) ==
    SelectSeq(rdCalls, LAMBDA c : c.op = op /\ c.msg = i)

\* a list without its first entry
AllButFirst(list) == [k \in 1..(Len(list) - 1) |-> list[k + 1]]

\* the transcript the fetch results of message i amount to
OwnTranscript(i) ==
    LET texts == MapSeq(SelectSeq(CallsFor("fetchFileContent", i),
                                  LAMBDA c : c.ok),
                        LAMBDA c : parseVttToText(c.content))
    IN  JoinWith(SelectSeq(texts, LAMBDA t : t # Empty), <<"\n", "\n">>)

\* the enrichment loops have made a call
EnrichmentBegun ==
    \E n \in 1..Len(rdCalls) :
        /\ rdCalls[n].msg > 0
        /\ rdCalls[n].op \in {"fetchFileContent", "getConversationReplies"}

\* C7: a failed transcript or reply fetch exits nothing and spoils no other
\* message: the command ends with exit code 0, and every eligible message
\* is enriched from its own fetch results.
C7_EnrichmentFailureIsIsolated ==
    /\ EnrichmentBegun => exitCode # 1
    /\ (pc = "done" /\ exitCode = 0) =>
          /\ Len(rdPrinted) = Len(rdMessages)
          /\ \A i \in 1..Len(rdPrinted) :
                LET msg == rdPrinted[i]
                    threads == CallsFor("getConversationReplies", i)
                    eligible == { k \in 1..Len(msg.files) :
                                    /\ msg.files[k].transcription = "complete"
                                    /\ msg.files[k].vtt # Empty }
                IN  /\ (rdOptions.includeThreads /\ msg.reply_count > 0) =>
                          /\ Len(threads) = 1
                          /\ msg.has_thread_replies = threads[1].ok
                          /\ threads[1].ok =>
                                msg.thread_replies
                                    = AllButFirst(threads[1].replies)
                    /\ rdOptions.includeTranscripts =>
                          /\ { c.file : c \in
                                 Range(CallsFor("fetchFileContent", i)) }
                                = eligible
                          /\ msg.transcript = OwnTranscript(i)

C7_Witness ==
    /\ pc = "done"
    /\ exitCode = 0
    /\ Len(rdPrinted) = 2
    /\ rdOptions.includeThreads
    /\ rdOptions.includeTranscripts
    /\ rdPrinted[1].ts = T09
    /\ rdPrinted[2].ts = T12
    /\ ~CallsFor("getConversationReplies", 1)[1].ok
    /\ ~rdPrinted[1].has_thread_replies
    /\ rdPrinted[2].has_thread_replies
    /\ Len(rdPrinted[2].thread_replies) = 2
    /\ ~CallsFor("fetchFileContent", 2)[1].ok
    /\ rdPrinted[2].transcript = <<"H", "i", " ", "y", "o">>

\* the reply fetches made for message i of the list
ReplyFetches(i) ==
    { n \in 1..Len(rdCalls) :
        rdCalls[n].op = "getConversationReplies" /\ rdCalls[n].msg = i }

\* the list a reply fetch returned, without its first entry
WithoutRoot(replies) == IF replies = <<>> THEN <<>> ELSE Tail(replies)

\* C15: with thread expansion, a message with reply_count > 0 whose reply
\* fetch succeeds has as thread_replies the fetched list without its first
\* entry, in the order returned; a message with reply_count 0 triggers no
\* reply fetch and gets no thread_replies.
C15_ThreadRepliesAreFetchedListWithoutRoot ==
    \A i \in 1..Len(rdMessages) :
        LET msg == rdMessages[i]
        IN  /\ msg.reply_count = 0 =>
                  /\ ReplyFetches(i) = {}
                  /\ ~msg.has_thread_replies
                  /\ msg.thread_replies = <<>>
            /\ \A n \in ReplyFetches(i) :
                  /\ rdOptions.includeThreads
                  /\ msg.reply_count > 0
                  /\ rdCalls[n].ok =>
                        /\ msg.has_thread_replies
                        /\ msg.thread_replies = WithoutRoot(rdCalls[n].replies)
            /\ (pc = "done" /\ exitCode = 0 /\ rdOptions.includeThreads
                /\ msg.reply_count > 0) =>
                  Cardinality(ReplyFetches(i)) = 1

C15_Witness ==
    /\ pc = "done"
    /\ exitCode = 0
    /\ Len(rdPrinted) = 2
    /\ rdPrinted[1].ts = T09
    /\ rdPrinted[1].reply_count = 2
    /\ Len(rdPrinted[1].thread_replies) = 2
    /\ rdPrinted[1].thread_replies[1].ts = <<"2", "0">>
    /\ rdPrinted[1].thread_replies[2].ts = <<"2", "1">>
    /\ rdPrinted[2].reply_count = 0
    /\ ~rdPrinted[2].has_thread_replies

\* the user lookups of the log: batch requests and single-user requests
UserLookupCalls ==
    { n \in 1..Len(rdCalls) : rdCalls[n].op \in {"getUsersInfo", "getUserInfo"} }

\* calls a and b of the log belong to the resolution of one batch: no
\* message fetch lies between them
SameBatch(a, b) ==
    \A c \in (a + 1)..(b - 1) :
        rdCalls[c].op \notin {"getConversationReplies",
                              "getConversationHistory"}

\* C17: the users of a batch of messages (the fetched messages, the replies
\* of one thread) are resolved with a single lookup request, never with
\* one request per message or per user.
C17_OneLookupPerBatch ==
    \A a, b \in UserLookupCalls : a < b => ~SameBatch(a, b)

\* the text of a payload
TextOf(content) ==
    IF content = VttWithCue THEN <<"H", "i", " ", "y", "o">> ELSE <<>>

\* the text obtained for file k of message i: that of the payload its
\* fetch returned, nothing when the fetch failed or was not made
ObtainedText(i, k) ==
    LET fetches == { n \in 1..Len(rdCalls) :
                       /\ rdCalls[n].op = "fetchFileContent"
                       /\ rdCalls[n].msg = i
                       /\ rdCalls[n].file = k
                       /\ rdCalls[n].ok }
    IN  IF fetches = {} THEN <<>>
        ELSE TextOf(rdCalls[CHOOSE n \in fetches : TRUE].content)

\* the texts obtained for files k, k + 1, ... of message i that are not
\* empty, a blank line between each two
RECURSIVE BlankLineJoined(_, _)
BlankLineJoined(i, k) ==
    IF k > Len(rdMessages[i].files) THEN <<>>
    ELSE LET rest == BlankLineJoined(i, k + 1)
             text == ObtainedText(i, k)
         IN  IF text = <<>> THEN rest
             ELSE IF rest = <<>> THEN text
             ELSE text \o <<"\n", "\n">> \o rest

\* file k of message i is complete and has a vtt reference
Transcribed(i, k) ==
    /\ rdMessages[i].files[k].transcription = "complete"
    /\ rdMessages[i].files[k].vtt # <<>>

\* C20: with transcripts included, the transcript of a message is the
\* non-empty parsed transcripts of its complete files with a vtt
\* reference, in file order, joined with a blank line; no file that is not
\* complete or has no vtt reference is fetched, and a message for which no
\* text was obtained has no transcript.
C20_TranscriptJoinsFileTranscripts ==
    /\ \A n \in 1..Len(rdCalls) :
          rdCalls[n].op = "fetchFileContent" =>
              /\ rdOptions.includeTranscripts
              /\ Transcribed(rdCalls[n].msg, rdCalls[n].file)
    /\ (pc = "done" /\ exitCode = 0) =>
          \A i \in 1..Len(rdMessages) :
              /\ rdOptions.includeTranscripts =>
                    /\ rdMessages[i].transcript = BlankLineJoined(i, 1)
                    /\ \A k \in 1..Len(rdMessages[i].files) :
                          Transcribed(i, k) =>
                              Cardinality({ n \in 1..Len(rdCalls) :
                                  /\ rdCalls[n].op = "fetchFileContent"
                                  /\ rdCalls[n].msg = i
                                  /\ rdCalls[n].file = k }) = 1
              /\ ~rdOptions.includeTranscripts =>
                    rdMessages[i].transcript = <<>>

C20_Witness ==
    /\ pc = "done"
    /\ exitCode = 0
    /\ rdOptions.includeTranscripts
    /\ Len(rdMessages) >= 1
    /\ rdMessages[1].ts = T12
    /\ rdMessages[1].transcript =
          <<"H", "i", " ", "y", "o", "\n", "\n", "H", "i", " ", "y", "o">>
    /\ Cardinality({ n \in 1..Len(rdCalls) :
                       rdCalls[n].op = "fetchFileContent" }) = 2

(***************************************************************************)
(* messages schedule: properties.                                          *)
(***************************************************************************)
\* the post time --time denotes, in unix seconds
RequestedPostTime ==
    IF scOptions.time.dateValid
    THEN scOptions.time.dateMs.seconds
    ELSE TsValue(scOptions.time.text)

\* the action read the clock, so the two validations were made
Validated == pc = "done" /\ now # -1

ScheduleCalls == SelectSeq(scCalls, LAMBDA c : c.op = "scheduleMessage")

OpenFailed ==
    \E n \in 1..Len(scCalls) :
        scCalls[n].op = "openConversation" /\ ~scCalls[n].ok

\* a post time at or before now, or more than 120 days after it, fails
\* validation, and no remote call is made
OutOfRangeRejected ==
    /\ RequestedPostTime <= now =>
          scError = "not_in_future" /\ exitCode = 1 /\ scCalls = <<>>
    /\ RequestedPostTime > now + 10368000 =>
          scError = "too_far" /\ exitCode = 1 /\ scCalls = <<>>

InRange ==
    RequestedPostTime > now /\ RequestedPostTime <= now + 10368000

DeliveryCalls ==
    { n \in 1..Len(scCalls) :
        scCalls[n].op \in {"postMessage", "scheduleMessage"} }

OpenCalls == { n \in 1..Len(scCalls) : scCalls[n].op = "openConversation" }

\* C19: in messages send and messages schedule, openConversation is called
\* only for a recipient id starting with `U`; when it fails, postMessage or
\* scheduleMessage is never called and the command exits with code 1; when
\* it succeeds, the message goes to the conversation id it returned; any
\* failed remote call is the last call made and ends the command with 1.
C19_RemoteFailureAborts ==
    /\ \A n \in OpenCalls :
          /\ scOptions.recipientId[1] = "U"
          /\ scCalls[n].channel = scOptions.recipientId
    /\ \A n \in 1..Len(scCalls) :
          ~scCalls[n].ok =>
              /\ n = Len(scCalls)
              /\ pc = "done"
              /\ exitCode = 1
    /\ \A d \in DeliveryCalls :
          IF scOptions.recipientId[1] = "U"
          THEN \E n \in OpenCalls :
                  /\ n < d
                  /\ scCalls[n].ok
                  /\ scCalls[d].channel = scCalls[n].returned
          ELSE /\ OpenCalls = {}
               /\ scCalls[d].channel = scOptions.recipientId
    /\ Cardinality(DeliveryCalls) <= 1
    /\ Cardinality(OpenCalls) <= 1

C19_Witness ==
    /\ pc = "done"
    /\ exitCode = 0
    /\ scOptions.recipientId = <<"U", "7">>
    /\ Len(scCalls) = 2
    /\ scCalls[1].op = "openConversation"
    /\ scCalls[2].op = "postMessage"
    /\ scCalls[2].channel = <<"D", "7">>

\* --time is neither a string of digits nor a date Date can parse
Unparseable ==
    /\ ~scOptions.time.dateValid
    /\ \/ scOptions.time.text = <<>>
       \/ \E n \in 1..Len(scOptions.time.text) :
             scOptions.time.text[n] \notin
                {"0", "1", "2", "3", "4", "5", "6", "7", "8", "9"}

\* the time given does not pass validation: it cannot be parsed, or the
\* clock was read and the post time is not in (now, now + 120 days]
ValidationFails ==
    \/ Unparseable
    \/ now # -1 /\ ~InRange

\* C11: when validation fails (unparseable date, past time, time more than
\* 120 days ahead), neither openConversation nor scheduleMessage is ever
\* called, the action stops at the validation, and it exits with code 1.
C11_ValidationPrecedesRemoteCalls ==
    ValidationFails =>
        /\ scCalls = <<>>
        /\ pc \in {"sc_client", "sc_validate", "done"}
        /\ pc = "done" => exitCode = 1

C11_Witness ==
    /\ pc = "done"
    /\ exitCode = 1
    /\ scError = "not_in_future"
    /\ RequestedPostTime = now
    /\ scOptions.recipientId[1] = "U"
    /\ scCalls = <<>>

(***************************************************************************)
(* drafts: properties.                                                     *)
(***************************************************************************)
\* C12: a drafts command that reports a failure terminates with exit code
\* 1, and one that succeeds terminates with exit code 0.
C12_DraftsExitCodeFollowsReport ==
    pc = "done" =>
        /\ drReport = "error" => exitCode = 1
        /\ drReport = "success" => exitCode = 0

(***************************************************************************)
(* conversations unread: the target, the filters.                          *)
(***************************************************************************)
\* the counters fetched hold conversation id
Listed(id) == \E i \in 1..Len(allChannels) : allChannels[i].id = id

\* the counters fetched hold conversation id with no unread message
ListedWithZeroUnread(id) ==
    \E i \in 1..Len(allChannels) :
        allChannels[i].id = id /\ allChannels[i].unread_count = 0

\* no remote call was made after getUserCounts
NoCallAfterCounts ==
    /\ \A c \in ChannelIdSet : ~fetchedHistory[c].fetched
    /\ fetchedHistory = [c \in ChannelIdSet |-> NoHistory]
    /\ userLookups = <<>>
    /\ markCalls = <<>>

\* C13: with --channel X, an X listed with zero unread is reported as "no
\* unread", a success, with no further remote call; an X that is not listed
\* is a not-found failure with exit code 1; neither report is given in the
\* other's case.
C13_NoUnreadAndNotFoundAreDistinct ==
    options.channel # "" =>
        /\ ListedWithZeroUnread(options.channel) =>
              /\ pc = "done"
              /\ outcome = "no_unread_in_channel"
              /\ exitCode = 0
              /\ NoCallAfterCounts
        /\ pc = "done" /\ ~Listed(options.channel) =>
              /\ exitCode = 1
              /\ outcome \in {"channel_not_found", "none"}
              /\ allChannels # <<>> => outcome = "channel_not_found"
              /\ NoCallAfterCounts
        /\ outcome = "channel_not_found" =>
              ~Listed(options.channel) /\ exitCode = 1
        /\ outcome = "no_unread_in_channel" =>
              Listed(options.channel) /\ exitCode = 0

C13_Witness ==
    /\ pc = "done"
    /\ options.channel = "A"
    /\ options.show
    /\ Len(allChannels) = 2
    /\ allChannels[1].unread_count = 0
    /\ allChannels[2].unread_count = 2
    /\ outcome = "no_unread_in_channel"
    /\ exitCode = 0

\* the conversations of the counters that are to be summarised or
\* processed: unread, and not muted unless muted ones are included
ExpectedConversations ==
    { allChannels[i].id : i \in
        { j \in 1..Len(allChannels) :
            /\ allChannels[j].unread_count > 0
            /\ options.includeMuted \/ ~allChannels[j].is_muted } }

\* the conversations whose history was fetched
Processed ==
    { c \in ChannelIdSet : fetchedHistory[c].fetched }

\* C14: without --channel, the conversations summarised or processed are
\* exactly those with unread_count > 0 that are not muted, and with
\* --include-muted exactly those with unread_count > 0.
C14_FilteredSetIsUnreadAndUnmuted ==
    options.channel = "" /\ pc \notin {"un_client", "un_counts"} =>
        /\ { unreadChannels[i].id : i \in 1..Len(unreadChannels) } =
              ExpectedConversations
        /\ Len(unreadChannels) = Cardinality(ExpectedConversations)
        /\ Processed \subseteq ExpectedConversations
        /\ pc = "done" /\ exitCode = 0 /\ options.show =>
              Processed = ExpectedConversations

C14_Witness ==
    /\ pc = "done"
    /\ exitCode = 0
    /\ options.channel = ""
    /\ options.includeMuted
    /\ options.show
    /\ Len(allChannels) = 2
    /\ allChannels[1].unread_count = 2 /\ ~allChannels[1].is_muted
    /\ allChannels[2].unread_count = 1 /\ allChannels[2].is_muted
    /\ Processed = {"A", "B"}

(***************************************************************************)
(* parseVttToText: properties.                                             *)
(***************************************************************************)
\* the texts of the cue text lines that are not empty, in order
RECURSIVE SurvivingTexts(_)
SurvivingTexts(lines) ==
    IF lines = <<>> THEN <<>>
    ELSE IF Head(lines).kind = "text" /\ Head(lines).clean # <<>>
    THEN <<Head(lines).clean>> \o SurvivingTexts(Tail(lines))
    ELSE SurvivingTexts(Tail(lines))

\* texts, one space between each two
RECURSIVE SpaceJoined(_)
SpaceJoined(texts) ==
    IF texts = <<>> THEN <<>>
    ELSE IF Len(texts) = 1 THEN texts[1]
    ELSE SpaceJoined(SubSeq(texts, 1, Len(texts) - 1)) \o <<" ">>
         \o texts[Len(texts)]

\* C16: parseVttToText returns the texts of the payload's lines that are
\* neither the header, a cue timing, a line of digits nor blank, without
\* their markup tags, the empty ones left out, joined in order with one
\* space.
C16_VttReducedToPlainText ==
    pc = "done" => vttText = SpaceJoined(SurvivingTexts(vttLines))

C16_Witness ==
    /\ pc = "done"
    /\ vttLines = VttExampleLines
    /\ vttText = <<"H", "e", "l", "l", "o", " ", "w", "o", "r", "l", "d">>

(***************************************************************************)
(* conversations unread: marking, order, final report.                     *)
(***************************************************************************)
\* the conversations a mark-read call was issued for
MarkedConversations == { markCalls[n].channel : n \in 1..Len(markCalls) }

\* C21: with --mark-read, with or without --show, a mark-read call is
\* issued for every conversation of the filtered unread set.
C21_MarkReadMarksAllListed ==
    (pc = "done" /\ exitCode = 0 /\ options.markRead) =>
        \A i \in 1..Len(unreadChannels) :
            unreadChannels[i].id \in MarkedConversations

\* C22: with --channel X and without --include-muted, "no unread messages
\* in this channel" is reported only when the unread_count of X is 0.
C22_NoUnreadOnlyForZeroCount ==
    (outcome = "no_unread_in_channel" /\ ~options.includeMuted) =>
        \A i \in 1..Len(allChannels) :
            allChannels[i].id = options.channel =>
                allChannels[i].unread_count = 0

\* the conversations in which at least one message was shown
ShownConversations == { c \in ChannelIdSet : shown[c] # <<>> }

\* C23: with --show --mark-read, a mark-read call is issued exactly once
\* for each conversation in which a message was shown and for no other,
\* and only after the info and history fetches of all conversations; if
\* one of those fetches fails, the command exits 1 with nothing marked.
C23_MarksOncePerShownAfterAllFetches ==
    /\ markCalls # <<>> =>
          /\ options.show /\ options.markRead
          /\ pc \in {"un_mark", "un_finish", "done"}
          /\ \A i \in 1..Len(unreadChannels) :
                fetchedHistory[unreadChannels[i].id].fetched
          /\ MarkedConversations \subseteq ShownConversations
          /\ \A a, b \in 1..Len(markCalls) :
                a # b => markCalls[a].channel # markCalls[b].channel
    /\ (pc = "done" /\ exitCode = 0 /\ options.show /\ options.markRead) =>
          MarkedConversations = ShownConversations
    /\ exitCode = 1 => markCalls = <<>>

C23_Witness ==
    /\ pc = "done"
    /\ exitCode = 0
    /\ Len(unreadChannels) = 2
    /\ shown["A"] # <<>>
    /\ shown["B"] = <<>>
    /\ fetchedHistory["B"].fetched
    /\ fetchedHistory["B"].returned # <<>>
    /\ Len(markCalls) = 1
    /\ markCalls[1].channel = "A"

\* where the fetched counters hold conversation id
PlaceInCounters(id) ==
    CHOOSE i \in 1..Len(allChannels) : allChannels[i].id = id

\* C24: the conversations summarised or processed are in descending order
\* of unread_count, and those with equal unread_count are in the order of
\* the fetched counters.
C24_SortedByUnreadCountStable ==
    \A i \in 1..(Len(unreadChannels) - 1) :
        LET earlier == unreadChannels[i]
            later == unreadChannels[i + 1]
        IN  /\ earlier.unread_count >= later.unread_count
            /\ earlier.unread_count = later.unread_count =>
                  PlaceInCounters(earlier.id) < PlaceInCounters(later.id)

C24_Witness ==
    /\ pc = "done"
    /\ outcome = "summary"
    /\ Len(allChannels) = 2
    /\ allChannels[1].unread_count = 1
    /\ allChannels[2].unread_count = 2
    /\ Len(unreadChannels) = 2
    /\ unreadChannels[1].id = "B"
    /\ unreadChannels[2].id = "A"

\* no message of any conversation was shown
NothingShown == \A c \in ChannelIdSet : shown[c] = <<>>

\* C25: with --show, all-caught-up is reported exactly when the
\* conversations that passed the filters were processed and no message was
\* shown; it is not what is reported when no conversation passed the
\* filters.
C25_AllCaughtUpIsNotNothingMatched ==
    (pc = "done" /\ exitCode = 0 /\ options.show
     /\ outcome # "no_unread_in_channel") =>
        (outcome = "all_caught_up"
            <=> (unreadChannels # <<>> /\ NothingShown))

(***************************************************************************)
(* files download-all: no overwrite.                                       *)
(***************************************************************************)
\* the paths in the output directory just before write i: those of the
\* prior run, those written earlier in the batch, and those a failed
\* earlier write has left behind
ExistingBefore(i) ==
    priorFiles \cup
    { written[k].path : k \in { j \in 1..(i - 1) : written[j].left } }

\* C26: every path written did not exist in the output directory just
\* before the write, whether left by a prior run or written by an earlier
\* file of the same batch.
C26_NeverOverwrites ==
    \A i \in 1..Len(written) :
        /\ ~written[i].existed
        /\ written[i].path \notin ExistingBefore(i)

C26_Witness ==
    /\ pc = "done"
    /\ Len(written) = 3
    /\ \A i \in 1..3 : written[i].ok /\ written[i].collided
    /\ priorFiles = { Join(outputDir, <<"a", ".", "t">>) }
    /\ written[1].path = Join(outputDir, <<"a", "_", "1", ".", "t">>)
    /\ written[2].path = Join(outputDir, <<"a", "_", "2", ".", "t">>)
    /\ written[3].path = Join(outputDir, <<"a", "_", "1", "_", "1", ".", "t">>)

====
